---- MODULE Spec2Model ----
(***************************************************************************)
(* Model of Scripts/batch_hunyuan3d.py: HunyuanBatchProcessor running a    *)
(* folder of images through the per-item pipeline (process_single_image),  *)
(* the FBX conversion fallback chain (_convert_to_fbx, export_mesh) and    *)
(* the run summary written by process_folder.                              *)
(*                                                                         *)
(* External capabilities (image loading, shape generation, mesh export,    *)
(* the three FBX backends, texturing, preview, file system calls) are      *)
(* opaque: each call either returns or raises, chosen nondeterministically.*)
(***************************************************************************)
EXTENDS Naturals, Integers, Sequences, FiniteSets, TLC

(***************************************************************************)
(* Bounds of the model.                                                    *)
(***************************************************************************)
MaxItems == 2        \* longest image_files list of a folder run
MaxDur == 1          \* longest duration of one timed stage, in clock ticks

None == [none |-> TRUE]    \* Python's None where a record is expected
NoMesh == "none"           \* no mesh held yet
Unset == <<"unset">>       \* self.fbx_methods while the attribute is not set
NoTime == -1               \* a timing key that is not in the dictionary yet

\* Stems (Path(image_path).stem) of the input images.  The second stem
\* contains the text that export_mesh's str.replace looks for.
Stems == {"cat", "x_temp.obj"}
\* Values of uuid.uuid4().hex[:8].
Suffixes == {"0a1b2c3d", "9f8e7d6c"}
Platforms == {"posix", "windows"}
FileTypes == {"obj", "fbx"}
Backends == {"bpy", "pymeshlab", "open3d"}
Seed == 1234         \* args.seed, the default of --seed
\* Sets of installed backends of the folder runs; the runs on a single image
\* take every subset of Backends.
InstalledFolder == {{}}
\* What args.input names: nothing, a file that is no supported image, a
\* supported image file, a directory.
InputKinds == {"missing", "other", "image", "dir"}
Devices == {"cuda:0", "cpu"}

VARIABLES
    input_kind,     \* main: what the path args.input names
    device,         \* args.device
    cuda_available, \* torch.cuda.is_available()
    platform,       \* operating system the interpreter runs on
    installed,      \* FBX backend packages whose import succeeds
    hanging,        \* FBX backend packages whose import never returns
    is_single_image,\* main: the input is one image, not a folder
    file_type,      \* args.file_type, read by __init__
    call_file_type, \* file_type argument of process_folder and
                    \* process_single_image; main passes args.file_type
    gs_in,          \* a direct _gen_shape call: its arguments
    gs_out,         \* a direct _gen_shape call: what it did, None before
    listing,        \* process_folder's glob: names in the input folder
    globbed,        \* process_folder's glob: the list it builds
    packages,       \* check_dependencies: packages that are installed
    deps,           \* check_dependencies: outcome of main, None before
    low_vram_mode,  \* args.low_vram_mode
    image_files,    \* process_folder: list of the stems of the inputs
    fbx_methods,    \* self.fbx_methods (Unset while the attribute is unset)
    texgen_worker,  \* TRUE iff self.texgen_worker is not None
    pc,             \* position of the single thread of control
    i,              \* 1-based index of the item the loop is at
    processed, errors, total_time, results,   \* locals of process_folder
    summary,        \* contents of batch_summary.json, None until written
    dirs,           \* item folders that exist under output_dir
    fs,             \* files of the folder of the item in flight, and
                    \* stats.json of every folder
    save_folder,    \* local of process_single_image
    i23d_args,      \* _gen_shape: arguments of its i23d_worker call
    stages,         \* stages of the item in flight that have started
    mesh,           \* local of process_single_image: which mesh it holds
    stats,          \* local of process_single_image
    elapsed,        \* time.time() - start_time_total
    export_ret,     \* outcome of the export_mesh call just made, else None
    calls,          \* backend invocations of the _convert_to_fbx call just made
    attempted,      \* indices passed to process_single_image, in call order
    folders,        \* value returned by each gen_save_folder call, in order
    rets,           \* success flag returned by each process_single_image call
    cache_cleared   \* number of torch.cuda.empty_cache() calls

vars == <<input_kind, device, cuda_available, platform, installed, hanging,
          is_single_image, file_type, call_file_type, gs_in, gs_out, listing,
          globbed, packages, deps, low_vram_mode, image_files, fbx_methods,
          texgen_worker, pc, i, processed, errors, total_time, results,
          summary, dirs, fs, save_folder, i23d_args, stages, mesh, stats,
          elapsed, export_ret, calls, attempted, folders, rets, cache_cleared>>

\* State of the functions that are checked on their own; a run of main
\* does not touch it.
units == <<gs_in, gs_out, listing, globbed, packages, deps>>

startup == <<input_kind, device, cuda_available, platform, installed, hanging,
             is_single_image, file_type, call_file_type, low_vram_mode,
             image_files, units>>
config == <<startup, fbx_methods, texgen_worker>>
counters == <<processed, errors, total_time, results>>
history == <<attempted, folders, rets>>

(***************************************************************************)
(* Helpers.                                                                *)
(***************************************************************************)
Max(a, b) == IF a >= b THEN a ELSE b

InSeq(x, s) == \E k \in 1..Len(s) : s[k] = x

SeqsUpTo(S, n) == UNION {[1..k -> S] : k \in 0..n}

\* A folder path is output_dir/<stem>_<suffix>; a file path is a folder plus
\* a file name made of a base and an ending.
Folder(stem, sfx) == [stem |-> stem, sfx |-> sfx]
File(dir, base, ext) == [dir |-> dir, base |-> base, ext |-> ext]

Exists(files, path) == \E f \in files : f.path = path
Content(files, path) == (CHOOSE f \in files : f.path = path).content
Remove(files, path) == {f \in files : f.path # path}
WriteFile(files, path, content) ==
    Remove(files, path) \cup {[path |-> path, content |-> content]}

(***************************************************************************)
(* gen_save_folder: the folder name is the stem plus the first 8 hex       *)
(* digits of a fresh uuid4; makedirs(exist_ok=True) accepts an existing    *)
(* folder.                                                                 *)
(***************************************************************************)
gen_save_folder(base_name, uuid_hex) == Folder(base_name, uuid_hex)

(***************************************************************************)
(* str.replace as used on whole paths by export_mesh and the backends:     *)
(* every occurrence is replaced, in the directory part as well.            *)
(***************************************************************************)
ReplaceTempObj(path) ==
    File(Folder(IF path.dir.stem = "x_temp.obj" THEN "x.obj" ELSE path.dir.stem,
                path.dir.sfx),
         path.base,
         IF path.ext = "_temp.obj" THEN ".obj" ELSE path.ext)

ReplaceFbx(path, with) ==
    File(path.dir, path.base, IF path.ext = ".fbx" THEN with ELSE path.ext)

\* os.rename(src, dst) with src existing.  It raises when the directory of
\* dst does not exist and, on Windows, when dst exists.  dst_left says that
\* an earlier item using the same folder left a file at dst.
RenameRaises(files, ds, plat, dst, dst_left) ==
    \/ dst.dir \notin ds
    \/ plat = "windows" /\ (Exists(files, dst) \/ dst_left)

Rename(files, src, dst) ==
    WriteFile(Remove(files, src), dst, Content(files, src))

(***************************************************************************)
(* The three FBX backends.  Each returns [ok, fs, calls]; every exception  *)
(* inside a backend is caught there and turned into ok = FALSE.            *)
(***************************************************************************)
\* "partial": bpy.ops.export_scene.fbx raises after it has created the file
\* at filepath; no code removes that file.
BpyOutcomes == {"ok", "fail", "partial"}
PymeshlabOutcomes == {"ok", "nofbx", "fail"}
Open3dOutcomes == {"ok", "fail"}
\* What each backend does in one conversion: bpy2 is the bpy call chained
\* from the Open3D backend.  A backend that is not in the list is not called,
\* so its outcome is fixed.
Outcomes(avail) ==
    [bpy : IF InSeq("bpy", avail) THEN BpyOutcomes ELSE {"fail"},
     pymeshlab : IF InSeq("pymeshlab", avail) THEN PymeshlabOutcomes
                 ELSE {"fail"},
     open3d : IF InSeq("open3d", avail) THEN Open3dOutcomes ELSE {"fail"},
     bpy2 : IF InSeq("bpy", avail) /\ InSeq("open3d", avail)
            THEN BpyOutcomes ELSE {"fail"}]

Call(fn, via, ok) == [fn |-> fn, via |-> via, ok |-> ok]

export_to_fbx_bpy(files, input_path, output_path, o, via) ==
    IF o = "ok"
    THEN [ok |-> TRUE,
          fs |-> WriteFile(files, output_path, Content(files, input_path)),
          calls |-> <<Call("bpy", via, TRUE)>>]
    ELSE [ok |-> FALSE,
          fs |-> IF o = "partial"
                 THEN WriteFile(files, output_path, "partial")
                 ELSE files,
          calls |-> <<Call("bpy", via, FALSE)>>]

export_to_fbx_pymeshlab(files, input_path, output_path, o) ==
    CASE o = "ok" ->
           [ok |-> TRUE,
            fs |-> WriteFile(files, output_path, Content(files, input_path)),
            calls |-> <<Call("pymeshlab", "convert", TRUE)>>]
      [] o = "nofbx" ->
           [ok |-> FALSE,
            fs |-> WriteFile(files, ReplaceFbx(output_path, "_pymeshlab.obj"),
                             Content(files, input_path)),
            calls |-> <<Call("pymeshlab", "convert", FALSE)>>]
      [] OTHER ->
           [ok |-> FALSE, fs |-> files,
            calls |-> <<Call("pymeshlab", "convert", FALSE)>>]

\* Mutant of CanChain: the Open3D backend hands over to bpy whether or not
\* bpy is in the list.
CanChainAlways(methods) == TRUE

\* Line 425: 'bpy' in self.fbx_methods.
CanChain(methods) == InSeq("bpy", methods)

export_to_fbx_open3d(files, methods, input_path, output_path, o, o2) ==
    LET temp_obj == ReplaceFbx(output_path, "_temp_o3d.obj")
        written == WriteFile(files, temp_obj, Content(files, input_path))
    IN  IF o # "ok"
        THEN [ok |-> FALSE, fs |-> files,
              calls |-> <<Call("open3d", "convert", FALSE)>>]
        ELSE IF CanChain(methods)
        THEN LET r == export_to_fbx_bpy(written, temp_obj, output_path, o2,
                                        "open3d")
             IN  [ok |-> r.ok, fs |-> Remove(r.fs, temp_obj),
                  calls |-> <<Call("open3d", "convert", r.ok)>> \o r.calls]
        ELSE [ok |-> FALSE, fs |-> written,
              calls |-> <<Call("open3d", "convert", FALSE)>>]

(***************************************************************************)
(* _convert_to_fbx: the methods list and the first-success loop.           *)
(***************************************************************************)
Priority == <<"bpy", "pymeshlab", "open3d">>

\* Mutant of Methods: every available method is in the list twice.
MethodsTwice(avail) == SelectSeq(Priority \o Priority, LAMBDA m : InSeq(m, avail))

Methods(avail) == SelectSeq(Priority, LAMBDA m : InSeq(m, avail))

Invoke(m, files, avail, input_path, output_path, out) ==
    CASE m = "bpy" ->
           export_to_fbx_bpy(files, input_path, output_path, out.bpy, "convert")
      [] m = "pymeshlab" ->
           export_to_fbx_pymeshlab(files, input_path, output_path, out.pymeshlab)
      [] OTHER ->
           export_to_fbx_open3d(files, avail, input_path, output_path,
                                out.open3d, out.bpy2)

\* Mutant of StopAfter: the loop does not return on the first success.
StopAfterNever(ok) == FALSE

\* Line 461-463: the loop returns True as soon as a method returns True.
StopAfter(ok) == ok

\* A file that a failed FBX writer left behind is at path.
Leftover(files, path) == Exists(files, path) /\ Content(files, path) = "partial"

\* Lines 459-461: every method is called with the same output_path.  stale
\* records that a method after the first was called while a leftover of a
\* failed one was at output_path.
RECURSIVE ConvertLoop(_, _, _, _, _, _, _)
ConvertLoop(methods, k, acc, avail, input_path, output_path, out) ==
    IF k > Len(methods)
    THEN acc
    ELSE LET r == Invoke(methods[k], acc.fs, avail, input_path, output_path, out)
             now == [ok |-> acc.ok \/ r.ok, fs |-> r.fs,
                     calls |-> acc.calls \o r.calls,
                     stale |-> acc.stale
                               \/ (k > 1 /\ Leftover(acc.fs, output_path))]
         IN  IF StopAfter(r.ok)
             THEN now
             ELSE ConvertLoop(methods, k + 1, now, avail, input_path,
                              output_path, out)

convert_to_fbx(files, avail, input_path, output_path, out) ==
    ConvertLoop(Methods(avail), 1,
                [ok |-> FALSE, fs |-> files, calls |-> <<>>, stale |-> FALSE],
                avail, input_path, output_path, out)

(***************************************************************************)
(* export_mesh.  export_ok says whether mesh.export returns; the result is *)
(* [raised, path, conv, fs, calls, stale] where conv is "none" (no         *)
(* conversion was tried), "ok" or "failed".                                *)
(***************************************************************************)
\* Mutant of BaseFilename: both exports use the same base name.
BaseFilenameShared(textured) == "white_mesh"

\* Lines 474-477.
BaseFilename(textured) == IF textured THEN "textured_mesh" ELSE "white_mesh"

ExportResult(raised, path, conv, files, cs, stale) ==
    [raised |-> raised, path |-> path, conv |-> conv, fs |-> files,
     calls |-> cs, stale |-> stale]

export_mesh(files, ds, plat, avail, m, folder, textured, ftype, export_ok, out, dst_left) ==
    LET base == BaseFilename(textured) IN
    IF ftype = "fbx"
    THEN LET temp_obj_path == File(folder, base, "_temp.obj")
             fbx_path == File(folder, base, ".fbx")
             obj_path == ReplaceTempObj(temp_obj_path)
             exported == WriteFile(files, temp_obj_path, m)
         IN  IF ~export_ok
             THEN ExportResult(TRUE, None, "none", files, <<>>, FALSE)
             ELSE IF avail = Unset
             THEN \* line 451: self.fbx_methods was never set
                  ExportResult(TRUE, None, "none", exported, <<>>, FALSE)
             ELSE LET c == convert_to_fbx(exported, avail, temp_obj_path,
                                          fbx_path, out)
                  IN  IF c.ok
                      THEN ExportResult(FALSE, fbx_path, "ok",
                                        Remove(c.fs, temp_obj_path), c.calls,
                                        c.stale)
                      ELSE IF RenameRaises(c.fs, ds, plat, obj_path, dst_left)
                      THEN ExportResult(TRUE, None, "failed", c.fs, c.calls,
                                        c.stale)
                      ELSE ExportResult(FALSE, obj_path, "failed",
                                        Rename(c.fs, temp_obj_path, obj_path),
                                        c.calls, c.stale)
    ELSE LET path == File(folder, base, "." \o ftype)
         IN  IF ~export_ok
             THEN ExportResult(TRUE, None, "none", files, <<>>, FALSE)
             ELSE ExportResult(FALSE, path, "none", WriteFile(files, path, m),
                               <<>>, FALSE)

(***************************************************************************)
(* Pieces of process_folder's loop body and summary.                       *)
(***************************************************************************)
ResultRecord(idx, image, folder, st) ==
    [idx |-> idx, image |-> image, output_folder |-> folder, stats |-> st]

\* Mutant of AppendResult: the record is put in front of the list.
PrependResult(rs, rec) == <<rec>> \o rs

\* Line 752: results.append({...}) in the success branch.
AppendResult(rs, rec) == Append(rs, rec)

\* Mutant of ResultsOnError: a failed item gets a record too.
ResultsOnErrorRecorded(rs, idx, image) ==
    Append(rs, ResultRecord(idx, image, None, None))

\* Lines 757-758: the failure branch only counts the error.
ResultsOnError(rs, idx, image) == rs

\* Mutant of LoopAfterError: the loop is left at the first failed item.
LoopBreakOnError(idx, n) == n + 1

\* Lines 742, 757-758: after a failed item the for loop takes the next item.
LoopAfterError(idx, n) == idx + 1

\* Mutant of AverageTime: divides by processed itself.
AverageTimeUnguarded(total, done) == [num |-> total, den |-> done]

\* Line 776: total_time/max(processed, 1), kept as an exact fraction.
AverageTime(total, done) == [num |-> total, den |-> Max(done, 1)]

Summary(n, done, errs, total, rs) ==
    [total_images |-> n, processed |-> done, errors |-> errs,
     total_time |-> total, average_time |-> AverageTime(total, done),
     results |-> rs]

(***************************************************************************)
(* Initial states.  InitFolder and InitSingle: main has parsed and         *)
(* validated the arguments (an existing directory, an existing image       *)
(* file), no import hangs, and main is about to construct the processor.   *)
(* InitMain: main has parsed the arguments and validated nothing yet; the  *)
(* input, the device and the imports are arbitrary.                        *)
(***************************************************************************)
\* Nothing has run yet.
InitRun ==
    /\ fbx_methods = Unset
    /\ texgen_worker = FALSE
    /\ i23d_args = None
    /\ stages = <<>>
    /\ i = 0
    /\ processed = 0
    /\ errors = 0
    /\ total_time = 0
    /\ results = <<>>
    /\ summary = None
    /\ dirs = {}
    /\ fs = {}
    /\ save_folder = None
    /\ mesh = NoMesh
    /\ stats = None
    /\ elapsed = 0
    /\ export_ret = None
    /\ calls = <<>>
    /\ attempted = <<>>
    /\ folders = <<>>
    /\ rets = <<>>
    /\ cache_cleared = 0

\* No function is called on its own.
InitNoUnits ==
    /\ gs_in = None
    /\ gs_out = None
    /\ listing = {}
    /\ globbed = <<>>
    /\ packages = {}
    /\ deps = None

InitCommon ==
    /\ platform \in Platforms
    /\ file_type \in FileTypes
    /\ low_vram_mode \in BOOLEAN
    /\ InitNoUnits
    /\ InitRun

InitValidated ==
    /\ device = "cuda:0"
    /\ cuda_available = TRUE
    /\ hanging = {}
    /\ pc = "init"

InitFolder ==
    /\ input_kind = "dir"
    /\ is_single_image = FALSE
    /\ image_files \in SeqsUpTo(Stems, MaxItems)
    /\ installed \in InstalledFolder
    /\ InitValidated
    /\ InitCommon
    /\ call_file_type = file_type

InitSingle ==
    /\ input_kind = "image"
    /\ is_single_image = TRUE
    /\ image_files \in [1..1 -> Stems]
    /\ installed \in SUBSET Backends
    /\ InitValidated
    /\ InitCommon
    /\ call_file_type = file_type

\* A processor constructed with one file type whose process_single_image is
\* then called with any file type, as the signatures allow; main always
\* passes args.file_type.
InitApi ==
    /\ input_kind = "image"
    /\ is_single_image = TRUE
    /\ image_files \in [1..1 -> Stems]
    /\ installed \in InstalledFolder
    /\ call_file_type \in FileTypes
    /\ InitValidated
    /\ InitCommon

\* Line 856: is_single_image = input_path.is_file() and is_image_file(...).
\* A directory holds at most one image here; an invalid input holds none.
InitMain ==
    /\ input_kind \in InputKinds
    /\ device \in Devices
    /\ cuda_available \in BOOLEAN
    /\ hanging \in SUBSET Backends
    /\ installed \in InstalledFolder
    /\ is_single_image = (input_kind = "image")
    /\ image_files \in CASE input_kind = "image" -> [1..1 -> Stems]
                          [] input_kind = "dir" -> SeqsUpTo(Stems, 1)
                          [] OTHER -> {<<>>}
    /\ pc = "start"
    /\ InitCommon
    /\ call_file_type = file_type

N == Len(image_files)

item_locals == <<save_folder, i23d_args, stages, mesh, stats, elapsed,
                 export_ret, calls>>

ResetItemLocals ==
    /\ save_folder' = None
    /\ i23d_args' = None
    /\ stages' = <<>>
    /\ mesh' = NoMesh
    /\ stats' = None
    /\ elapsed' = 0
    /\ export_ret' = None
    /\ calls' = <<>>

\* What the model keeps of a folder once its item has returned.
Forget(files) == {f \in files : f.path.base = "stats"}

\* gen_save_folder has returned this folder to an earlier item as well.
Reused(folder) == \E k \in 1..(Len(folders) - 1) : folders[k] = folder

(***************************************************************************)
(* main, lines 852-870: the three startup checks, each ending the process  *)
(* with sys.exit(1).                                                       *)
(***************************************************************************)
\* Line 868: 'cuda' in args.device.
UsesCuda(dev) == dev = "cuda:0"

\* Mutant of StartupError: the CUDA check is left out.
StartupErrorNoCuda(kind, dev, cuda) ==
    IF kind = "missing" THEN "missing"
    ELSE IF kind \notin {"image", "dir"} THEN "unsupported"
    ELSE "none"

StartupError(kind, dev, cuda) ==
    IF kind = "missing" THEN "missing"
    ELSE IF kind \notin {"image", "dir"} THEN "unsupported"
    ELSE IF UsesCuda(dev) /\ ~cuda THEN "no_cuda"
    ELSE "none"

Validate ==
    /\ pc = "start"
    /\ pc' = IF StartupError(input_kind, device, cuda_available) = "none"
             THEN "fbx_check"
             ELSE "exit1"
    /\ UNCHANGED <<config, i, counters, summary, dirs, fs, item_locals,
                   history, cache_cleared>>

\* main, lines 872-880: with file_type fbx, a plain "import bpy" guarded by
\* except ImportError and by no timer.
FbxCheck ==
    /\ pc = "fbx_check"
    /\ pc' = IF file_type = "fbx" /\ "bpy" \in hanging THEN "hung" ELSE "init"
    /\ UNCHANGED <<config, i, counters, summary, dirs, fs, item_locals,
                   history, cache_cleared>>

(***************************************************************************)
(* HunyuanBatchProcessor.__init__: _check_fbx_dependencies runs only when  *)
(* args.file_type is fbx and lists the backends whose import succeeds, in  *)
(* the order bpy, pymeshlab, open3d; _init_workers decides whether a       *)
(* texture worker exists.                                                  *)
(***************************************************************************)
check_fbx_dependencies(inst) == SelectSeq(Priority, LAMBDA m : m \in inst)

\* Lines 119-121: signal.alarm exists on POSIX systems only.
HasSigalrm(plat) == plat = "posix"

\* Some import of _check_fbx_dependencies never returns: the import of bpy
\* is under signal.alarm(5) where SIGALRM exists, the imports of pymeshlab
\* and open3d (lines 141-155) are under no timer.
ProbeHangs(plat, hang) ==
    \/ "bpy" \in hang /\ ~HasSigalrm(plat)
    \/ "pymeshlab" \in hang
    \/ "open3d" \in hang

Construct ==
    /\ pc = "init"
    /\ IF file_type = "fbx" /\ ProbeHangs(platform, hanging)
       THEN /\ pc' = "hung"
            /\ UNCHANGED <<fbx_methods, texgen_worker>>
       ELSE /\ fbx_methods' = IF file_type = "fbx"
                              THEN check_fbx_dependencies(installed)
                              ELSE Unset
            /\ texgen_worker' \in BOOLEAN
            /\ pc' = "main"
    /\ UNCHANGED <<startup, i, counters, summary, dirs, fs, item_locals,
                   history, cache_cleared>>

(***************************************************************************)
(* process_folder, lines 709-739: an empty list returns without a summary. *)
(***************************************************************************)
StartFolder ==
    /\ pc = "main"
    /\ ~is_single_image
    /\ IF image_files = <<>>
       THEN pc' = "returned" /\ i' = i
       ELSE pc' = "loop" /\ i' = 1
    /\ processed' = 0
    /\ errors' = 0
    /\ total_time' = 0
    /\ results' = <<>>
    /\ UNCHANGED <<config, summary, dirs, fs, item_locals, history,
                   cache_cleared>>

\* main, lines 903-920: the single image is handed to process_single_image.
StartSingle ==
    /\ pc = "main"
    /\ is_single_image
    /\ pc' = "loop"
    /\ i' = 1
    /\ UNCHANGED <<config, counters, summary, dirs, fs, item_locals, history,
                   cache_cleared>>

(***************************************************************************)
(* process_single_image, lines 596-599: the folder is allocated before the *)
(* try block, so an exception of makedirs leaves process_single_image and  *)
(* its caller.                                                             *)
(***************************************************************************)
GenSaveFolder ==
    /\ pc = "loop"
    /\ i <= N
    /\ attempted' = Append(attempted, i)
    /\ \/ \E uuid_hex \in Suffixes :
             LET folder == gen_save_folder(image_files[i], uuid_hex)
             IN  /\ dirs' = dirs \cup {folder}
                 /\ save_folder' = folder
                 /\ folders' = Append(folders, folder)
                 /\ pc' = "load"
       \/ /\ pc' = "aborted"
          /\ UNCHANGED <<dirs, save_folder, folders>>
    /\ UNCHANGED <<config, i, counters, summary, fs, i23d_args, stages, mesh,
                   stats, elapsed, export_ret, calls, rets, cache_cleared>>

\* Lines 602-610: start_time_total, Image.open, convert and resize.
LoadImage ==
    /\ pc = "load"
    /\ elapsed' = 0
    /\ pc' \in {"gen_shape", "except"}
    /\ UNCHANGED <<config, i, counters, summary, dirs, fs, save_folder,
                   i23d_args, stages, mesh, stats, export_ret, calls, history,
                   cache_cleared>>

(***************************************************************************)
(* _gen_shape called with an image and check_box_rembg=True: input.png,    *)
(* background removal, rembg.png, shape generation, stats of the raw mesh. *)
(* raise_at names the call that raises, "none" when all return.            *)
(***************************************************************************)
GenShapePoints == {"save_input", "rembg", "save_rembg", "i23d", "none"}

\* Lines 526-541 and 588: the stats dictionary is built anew by each call
\* and gets the counts of the raw mesh; it has no 'total' time yet.
NewStats == [counted |-> "raw", total |-> NoTime]

\* Mutant of ManualSeed: one generator is kept for the run, so the items
\* handled earlier have drawn from it.
KeepGenerator(seed, earlier) == [seed |-> seed, drawn |-> earlier]

\* Lines 566-567: torch.Generator() followed by manual_seed(int(seed)): a
\* new generator from which nothing has been drawn, however many items
\* were handled earlier.
ManualSeed(seed, earlier) == [seed |-> seed, drawn |-> 0]

\* Lines 569-577: what i23d_worker is called with.
I23dArgs(image, gen) == [image |-> image, generator |-> gen]

GenShape ==
    /\ pc = "gen_shape"
    /\ \E raise_at \in GenShapePoints, d \in 1..MaxDur :
          LET input_png == File(save_folder, "input", ".png")
              rembg_png == File(save_folder, "rembg", ".png")
              fs1 == IF raise_at = "save_input" THEN fs
                     ELSE WriteFile(fs, input_png, "image")
              fs2 == IF raise_at \in {"save_input", "rembg", "save_rembg"}
                     THEN fs1
                     ELSE WriteFile(fs1, rembg_png, "image")
          IN  /\ fs' = fs2
              /\ i23d_args' =
                    IF raise_at \in {"i23d", "none"}
                    THEN I23dArgs(image_files[i], ManualSeed(Seed, Len(rets)))
                    ELSE i23d_args
              /\ IF raise_at = "none"
                 THEN /\ mesh' = "raw"
                      /\ stats' = NewStats
                      /\ elapsed' = elapsed + d
                      /\ pc' = "export_raw"
                 ELSE /\ UNCHANGED <<mesh, stats, elapsed>>
                      /\ pc' = "except"
    /\ stages' = Append(stages, "shape_generation")
    /\ UNCHANGED <<config, i, counters, summary, dirs, save_folder,
                   export_ret, calls, history, cache_cleared>>

\* One export_mesh call of process_single_image and what follows it.
DoExport(m, textured, next) ==
    \E export_ok \in BOOLEAN, out \in Outcomes(fbx_methods),
       dst_left \in IF Reused(save_folder) THEN BOOLEAN ELSE {FALSE} :
       LET r == export_mesh(fs, dirs, platform, fbx_methods, m, save_folder,
                            textured, call_file_type, export_ok, out, dst_left)
       IN  /\ fs' = r.fs
           /\ calls' = r.calls
           /\ export_ret' = [textured |-> textured, mesh |-> m,
                             raised |-> r.raised, path |-> r.path,
                             conv |-> r.conv, stale |-> r.stale]
           /\ pc' = IF r.raised THEN "except" ELSE next

NoExport ==
    /\ export_ret' = None
    /\ calls' = <<>>

\* Line 621: export of the raw mesh.
ExportRaw ==
    /\ pc = "export_raw"
    /\ DoExport(mesh, FALSE, "postprocess")
    /\ stages' = Append(stages, "export_raw")
    /\ UNCHANGED <<config, i, counters, summary, dirs, save_folder, i23d_args,
                   mesh, stats, elapsed, history, cache_cleared>>

\* Mutant of PostStages: the first two workers are called in the other
\* order.
PostStagesSwapped == <<"degenerate_face_remove", "floater_remove", "face_reduce">>

\* Lines 629-633: the three mesh workers, in the order they are called.
PostStages == <<"floater_remove", "degenerate_face_remove", "face_reduce">>

\* Lines 629-634: floater removal, degenerate-face removal, face reduction;
\* raise_at is the position of the worker that raises, 0 when all return.
PostProcess ==
    /\ pc = "postprocess"
    /\ \E raise_at \in 0..Len(PostStages) :
          IF raise_at = 0
          THEN /\ stages' = stages \o PostStages
               /\ mesh' = "clean"
               /\ pc' = "export_clean"
          ELSE /\ stages' = stages \o SubSeq(PostStages, 1, raise_at)
               /\ mesh' = mesh
               /\ pc' = "except"
    /\ NoExport
    /\ UNCHANGED <<config, i, counters, summary, dirs, fs, save_folder,
                   i23d_args, stats, elapsed, history, cache_cleared>>

\* Line 637: export of the cleaned mesh.
ExportClean ==
    /\ pc = "export_clean"
    /\ DoExport(mesh, FALSE, "texture")
    /\ stages' = Append(stages, "export_clean")
    /\ UNCHANGED <<config, i, counters, summary, dirs, save_folder, i23d_args,
                   mesh, stats, elapsed, history, cache_cleared>>

\* Lines 641-651: texture synthesis and export of the textured mesh.
Texture ==
    /\ pc = "texture"
    /\ IF texgen_worker
       THEN \/ DoExport("textured", TRUE, "stats")
            \/ pc' = "except" /\ fs' = fs /\ NoExport
       ELSE pc' = "stats" /\ fs' = fs /\ NoExport
    /\ stages' = IF texgen_worker THEN Append(stages, "texture") ELSE stages
    /\ UNCHANGED <<config, i, counters, summary, dirs, save_folder, i23d_args,
                   mesh, stats, elapsed, history, cache_cleared>>

(***************************************************************************)
(* Lines 654-659: the total time is fixed, then stats.json is opened for   *)
(* writing and dumped.  open() may raise (no file), json.dump may raise    *)
(* after open() created the file.                                          *)
(***************************************************************************)
WriteStats ==
    /\ pc = "stats"
    /\ stats' = [stats EXCEPT !.total = elapsed]
    /\ LET stats_path == File(save_folder, "stats", ".json")
       IN  \/ fs' = WriteFile(fs, stats_path, "stats") /\ pc' = "preview"
           \/ fs' = WriteFile(fs, stats_path, "partial") /\ pc' = "except"
           \/ fs' = fs /\ pc' = "except"
    /\ NoExport
    /\ stages' = Append(stages, "stats")
    /\ UNCHANGED <<config, i, counters, summary, dirs, save_folder, i23d_args,
                   mesh, elapsed, history, cache_cleared>>

(***************************************************************************)
(* _generate_preview: writes the front, side and top views in that order;  *)
(* any exception is caught inside, so the views written so far remain.     *)
(***************************************************************************)
Views == <<"front", "side", "top">>

\* Mutant of AfterPreview: an exception of the preview reaches the except
\* clause of process_single_image.
AfterPreviewPropagates(raised) == IF raised THEN "except" ELSE "empty_cache"

\* Lines 676 and 702-703: _generate_preview catches every Exception of its
\* body, so process_single_image goes on at line 664 either way.
AfterPreview(raised) == "empty_cache"

\* written is the number of views saved; fewer than all means that a call
\* of the body raised.
Preview ==
    /\ pc = "preview"
    /\ \E written \in 0..Len(Views), d \in 1..MaxDur :
          /\ fs' = fs \cup {[path |-> File(save_folder, Views[k], ".png"),
                             content |-> "preview"] : k \in 1..written}
          /\ elapsed' = elapsed + d
          /\ pc' = AfterPreview(written < Len(Views))
    /\ stages' = Append(stages, "preview")
    /\ UNCHANGED <<config, i, counters, summary, dirs, save_folder, i23d_args,
                   mesh, stats, export_ret, calls, history, cache_cleared>>

\* Lines 664-666: torch.cuda.empty_cache() in low VRAM mode; it may raise.
EmptyCache ==
    /\ pc = "empty_cache"
    /\ IF low_vram_mode
       THEN \/ cache_cleared' = cache_cleared + 1 /\ pc' = "return"
            \/ cache_cleared' = cache_cleared /\ pc' = "except"
       ELSE cache_cleared' = cache_cleared /\ pc' = "return"
    /\ UNCHANGED <<config, i, counters, summary, dirs, fs, item_locals,
                   history>>

\* Lines 668-669 and 749-756: return True, ...; the success branch.
ReturnSuccess ==
    /\ pc = "return"
    /\ ~is_single_image
    /\ rets' = Append(rets, TRUE)
    /\ processed' = processed + 1
    /\ total_time' = total_time + stats.total
    /\ results' = AppendResult(results,
                      ResultRecord(i, image_files[i], save_folder, stats))
    /\ errors' = errors
    /\ i' = i + 1
    /\ pc' = "loop"
    /\ fs' = Forget(fs)
    /\ ResetItemLocals
    /\ UNCHANGED <<config, summary, dirs, attempted, folders, cache_cleared>>

\* Lines 671-673 and 757-758: return False, None, None; the failure branch.
ReturnFailure ==
    /\ pc = "except"
    /\ ~is_single_image
    /\ rets' = Append(rets, FALSE)
    /\ errors' = errors + 1
    /\ results' = ResultsOnError(results, i, image_files[i])
    /\ UNCHANGED <<processed, total_time>>
    /\ i' = LoopAfterError(i, N)
    /\ pc' = "loop"
    /\ fs' = Forget(fs)
    /\ ResetItemLocals
    /\ UNCHANGED <<config, summary, dirs, attempted, folders, cache_cleared>>

\* Lines 760-785: the summary is built and written after the loop.
WriteSummary ==
    /\ pc = "loop"
    /\ ~is_single_image
    /\ i > N
    /\ summary' = Summary(N, processed, errors, total_time, results)
    /\ pc' = "done"
    /\ UNCHANGED <<config, i, counters, dirs, fs, item_locals, history,
                   cache_cleared>>

\* Lines 668-669 and 922-931: single image, success is reported.
SingleSuccess ==
    /\ pc = "return"
    /\ is_single_image
    /\ rets' = Append(rets, TRUE)
    /\ pc' = "exit0"
    /\ UNCHANGED <<config, i, counters, summary, dirs, fs, item_locals,
                   attempted, folders, cache_cleared>>

\* Lines 671-673 and 932-934: single image, failure ends in sys.exit(1).
SingleFailure ==
    /\ pc = "except"
    /\ is_single_image
    /\ rets' = Append(rets, FALSE)
    /\ pc' = "exit1"
    /\ UNCHANGED <<config, i, counters, summary, dirs, fs, item_locals,
                   attempted, folders, cache_cleared>>

(***************************************************************************)
(* A user interrupt raises KeyboardInterrupt in the running thread.  It is *)
(* not an Exception, so neither the except clause of process_single_image  *)
(* nor that of _generate_preview catches it, and process_folder has no     *)
(* handler: the run ends where it is and the locals of both functions are  *)
(* gone with their frames.                                                 *)
(***************************************************************************)
RunningPcs == {"loop", "load", "gen_shape", "export_raw", "postprocess",
               "export_clean", "texture", "stats", "preview", "empty_cache",
               "return", "except"}

Interrupt ==
    /\ pc \in RunningPcs
    /\ pc' = "interrupted"
    /\ ResetItemLocals
    /\ i' = 0
    /\ processed' = 0
    /\ errors' = 0
    /\ total_time' = 0
    /\ results' = <<>>
    /\ UNCHANGED <<config, summary, dirs, fs, history, cache_cleared>>

ItemStages ==
    \/ GenSaveFolder
    \/ LoadImage
    \/ GenShape
    \/ ExportRaw
    \/ PostProcess
    \/ ExportClean
    \/ Texture
    \/ WriteStats
    \/ Preview
    \/ EmptyCache

Next ==
    \/ Construct
    \/ StartFolder
    \/ ItemStages
    \/ ReturnSuccess
    \/ ReturnFailure
    \/ WriteSummary
    \/ Interrupt

Spec == InitFolder /\ [][Next]_vars

NextSingle ==
    \/ Construct
    \/ StartSingle
    \/ ItemStages
    \/ SingleSuccess
    \/ SingleFailure
    \/ Interrupt

SpecSingle == InitSingle /\ [][NextSingle]_vars

(***************************************************************************)
(* A folder run in which no interrupt arrives and every call returns or    *)
(* raises: the single thread then always takes its next step, which is     *)
(* the weak fairness of NextRun.                                           *)
(***************************************************************************)
NextRun ==
    \/ Construct
    \/ StartFolder
    \/ ItemStages
    \/ ReturnSuccess
    \/ ReturnFailure
    \/ WriteSummary

FairSpec == InitFolder /\ [][NextRun]_vars /\ WF_vars(NextRun)

(***************************************************************************)
(* main from its first check on, with any input, device and imports.       *)
(***************************************************************************)
NextMain ==
    \/ Validate
    \/ FbxCheck
    \/ Construct
    \/ StartFolder
    \/ StartSingle
    \/ ItemStages
    \/ ReturnSuccess
    \/ ReturnFailure
    \/ WriteSummary
    \/ SingleSuccess
    \/ SingleFailure
    \/ Interrupt

SpecMain == InitMain /\ [][NextMain]_vars

\* process_single_image called on a processor built with any file type.
SpecApi == InitApi /\ [][NextSingle]_vars

(***************************************************************************)
(* _gen_shape called on its own, with any arguments.  image is "none" or   *)
(* the mode of the PIL image given; caption says whether a caption is      *)
(* given, t2i_worker whether self.t2i_worker is not None, save_folder      *)
(* whether a folder is given.  The result is [raised, trace, files]: the   *)
(* exception that left the call ("none" when it returned), the workers and *)
(* saves it called, in order, and the files it wrote.                      *)
(***************************************************************************)
ImageModes == {"RGB", "RGBA", "L"}

GsInputs ==
    [image : {"none"} \cup ImageModes, caption : BOOLEAN,
     t2i_worker : BOOLEAN, check_box_rembg : BOOLEAN, save_folder : BOOLEAN]

GsResult(raised, trace, files) ==
    [raised |-> raised, trace |-> trace, files |-> files]

\* Mutant of T2iMissing: the worker is not tested before it is called.
T2iMissingIgnored(inp) == FALSE

\* Lines 544-546: no image, a caption, and self.t2i_worker is None.
T2iMissing(inp) == inp.image = "none" /\ inp.caption /\ ~inp.t2i_worker

\* Line 556: if check_box_rembg or image.mode == "RGB".
RembgWanted(check_box_rembg, mode) == check_box_rembg \/ mode = "RGB"

\* Lines 564-590: the generator, i23d_worker, export_to_trimesh, the counts.
GsShape(trace, files, raise_at) ==
    GsResult(IF raise_at = "i23d" THEN "Exception" ELSE "none",
             Append(trace, "i23d"), files)

\* Lines 555-562: background removal and rembg.png.
GsRembg(inp, mode, trace, files, raise_at) ==
    IF ~RembgWanted(inp.check_box_rembg, mode)
    THEN GsShape(trace, files, raise_at)
    ELSE IF raise_at = "rembg"
    THEN GsResult("Exception", Append(trace, "rembg"), files)
    ELSE IF ~inp.save_folder
    THEN GsShape(Append(trace, "rembg"), files, raise_at)
    ELSE IF raise_at = "save_rembg"
    THEN GsResult("Exception", trace \o <<"rembg", "save_rembg">>, files)
    ELSE GsShape(trace \o <<"rembg", "save_rembg">>,
                 files \cup {"rembg.png"}, raise_at)

\* Lines 551-553: input.png.
GsSaveInput(inp, mode, trace, raise_at) ==
    IF ~inp.save_folder
    THEN GsRembg(inp, mode, trace, {}, raise_at)
    ELSE IF raise_at = "save_input"
    THEN GsResult("Exception", Append(trace, "save_input"), {})
    ELSE GsRembg(inp, mode, Append(trace, "save_input"), {"input.png"},
                 raise_at)

\* t2i_mode is the mode of the image the text-to-image worker returns.
gen_shape(inp, t2i_mode, raise_at) ==
    IF inp.image = "none" /\ ~inp.caption
    THEN GsResult("ValueError", <<>>, {})
    ELSE IF inp.image # "none"
    THEN GsSaveInput(inp, inp.image, <<>>, raise_at)
    ELSE IF T2iMissing(inp)
    THEN GsResult("ValueError", <<>>, {})
    ELSE IF raise_at = "t2i" \/ ~inp.t2i_worker
    THEN GsResult("Exception", <<"t2i">>, {})
    ELSE GsSaveInput(inp, t2i_mode, <<"t2i">>, raise_at)

CallGenShape ==
    /\ pc = "call_gen_shape"
    /\ \E t2i_mode \in ImageModes, raise_at \in GenShapePoints \cup {"t2i"} :
          gs_out' = gen_shape(gs_in, t2i_mode, raise_at)
    /\ pc' = "gen_shape_returned"
    /\ UNCHANGED <<input_kind, device, cuda_available, platform, installed,
                   hanging, is_single_image, file_type, call_file_type,
                   low_vram_mode, image_files, gs_in, listing, globbed,
                   packages, deps, fbx_methods, texgen_worker, i, counters,
                   summary, dirs, fs, item_locals, history, cache_cleared>>

(***************************************************************************)
(* The glob of process_folder, lines 709-716, on any folder.  A name is a  *)
(* stem and an extension; an extension is its letters and how they are     *)
(* cased, so that str.lower and str.upper change the casing and nothing    *)
(* else.                                                                   *)
(***************************************************************************)
Ext(name, case) == [name |-> name, case |-> case]
Name(stem, ext) == [stem |-> stem, ext |-> ext]

Lower(e) == [e EXCEPT !.case = "lower"]
Upper(e) == [e EXCEPT !.case = "upper"]

\* Lines 71 and 710: supported_formats.
SupportedFormats ==
    <<Ext("jpg", "lower"), Ext("jpeg", "lower"), Ext("png", "lower"),
      Ext("bmp", "lower"), Ext("webp", "lower"), Ext("tiff", "lower")>>

\* Names that may be in the input folder: a.png, b.PNG, c.Png, d.jpg, e.txt.
FolderNames ==
    {Name("a", Ext("png", "lower")), Name("b", Ext("png", "upper")),
     Name("c", Ext("png", "mixed")), Name("d", Ext("jpg", "lower")),
     Name("e", Ext("txt", "lower"))}

\* Lines 69-72: str(file_path).lower().endswith(fmt) for some format.
is_image_file(f) ==
    \E k \in 1..Len(SupportedFormats) : Lower(f.ext) = SupportedFormats[k]

\* Path.glob('*' + pattern): pathlib matches the case exactly on POSIX and
\* ignores it on Windows.
Matches(f, pattern, plat) ==
    /\ f.ext.name = pattern.name
    /\ plat = "windows" \/ f.ext.case = pattern.case

RECURSIVE SetToSeq(_)
SetToSeq(S) ==
    IF S = {} THEN <<>>
    ELSE LET x == CHOOSE y \in S : TRUE IN <<x>> \o SetToSeq(S \ {x})

Glob(names, pattern, plat) ==
    SetToSeq({f \in names : Matches(f, pattern, plat)})

\* Lines 713-716: for each format, extend by the glob of the format and by
\* the glob of the upper-cased format.
RECURSIVE GlobAll(_, _, _, _)
GlobAll(names, fmts, k, plat) ==
    IF k > Len(fmts) THEN <<>>
    ELSE Glob(names, fmts[k], plat) \o Glob(names, Upper(fmts[k]), plat)
         \o GlobAll(names, fmts, k + 1, plat)

BuildImageFiles ==
    /\ pc = "call_glob"
    /\ globbed' = GlobAll(listing, SupportedFormats, 1, platform)
    /\ pc' = "glob_done"
    /\ UNCHANGED <<input_kind, device, cuda_available, platform, installed,
                   hanging, is_single_image, file_type, call_file_type,
                   low_vram_mode, image_files, gs_in, gs_out, listing,
                   packages, deps, fbx_methods, texgen_worker, i, counters,
                   summary, dirs, fs, item_locals, history, cache_cleared>>

(***************************************************************************)
(* UnityPlugin/check_dependencies.py: check_package and main.              *)
(***************************************************************************)
\* Lines 101-108: basic_packages, by package name.
BasicPackages == <<"torch", "pillow", "numpy", "trimesh", "tqdm", "rembg">>

Range(s) == {s[k] : k \in 1..Len(s)}

\* importlib.util.find_spec of a top-level name returns the spec of an
\* installed module and None for a missing one; it raises ImportError for
\* neither.
FindSpecRaises(pkg, inst) == FALSE

\* Lines 32-38: the value of find_spec is dropped; False is returned only
\* in the except clause.
check_package(pkg, inst) == IF FindSpecRaises(pkg, inst) THEN FALSE ELSE TRUE

\* Lines 110-113 and 142-148.
MissingPackages(inst) ==
    SelectSeq(BasicPackages, LAMBDA p : ~check_package(p, inst))

\* main of check_dependencies: python_ok is the outcome of
\* check_python_version, response whether the user agrees to install, done
\* the packages whose pip install succeeds.
CheckDependencies ==
    /\ pc = "call_check_dependencies"
    /\ \E python_ok \in BOOLEAN, response \in BOOLEAN :
          LET missing == MissingPackages(packages)
          IN  \E done \in SUBSET Range(missing) :
                 LET after == IF python_ok /\ missing # <<>> /\ response
                              THEN packages \cup done
                              ELSE packages
                 IN  /\ packages' = after
                     /\ deps' = [python_ok |-> python_ok,
                                 missing |-> IF python_ok THEN missing ELSE <<>>,
                                 returned |-> python_ok
                                              /\ MissingPackages(after) = <<>>]
    /\ pc' = "deps_returned"
    /\ UNCHANGED <<input_kind, device, cuda_available, platform, installed,
                   hanging, is_single_image, file_type, call_file_type,
                   low_vram_mode, image_files, gs_in, gs_out, listing,
                   globbed, fbx_methods, texgen_worker, i, counters, summary,
                   dirs, fs, item_locals, history, cache_cleared>>

(***************************************************************************)
(* The three functions above, each called once on arbitrary arguments.     *)
(***************************************************************************)
InitUnits ==
    /\ input_kind = "dir"
    /\ device = "cuda:0"
    /\ cuda_available = TRUE
    /\ installed = {}
    /\ hanging = {}
    /\ is_single_image = FALSE
    /\ file_type = "obj"
    /\ call_file_type = "obj"
    /\ low_vram_mode = FALSE
    /\ image_files = <<>>
    /\ gs_out = None
    /\ globbed = <<>>
    /\ deps = None
    /\ \/ /\ pc = "call_gen_shape"
          /\ gs_in \in GsInputs
          /\ platform = "posix"
          /\ listing = {}
          /\ packages = {}
       \/ /\ pc = "call_glob"
          /\ listing \in SUBSET FolderNames
          /\ platform \in Platforms
          /\ gs_in = None
          /\ packages = {}
       \/ /\ pc = "call_check_dependencies"
          /\ packages \in SUBSET Range(BasicPackages)
          /\ platform = "posix"
          /\ gs_in = None
          /\ listing = {}
    /\ InitRun

NextUnits ==
    \/ CallGenShape
    \/ BuildImageFiles
    \/ CheckDependencies

SpecUnits == InitUnits /\ [][NextUnits]_vars

TypeOK ==
    /\ pc \in RunningPcs \cup {"start", "fbx_check", "hung",
                               "call_gen_shape", "gen_shape_returned",
                               "call_glob", "glob_done",
                               "call_check_dependencies", "deps_returned",
                               "init", "main", "returned", "aborted", "done",
                               "interrupted", "exit0", "exit1"}
    /\ i \in 0..(MaxItems + 1)
    /\ processed \in 0..MaxItems
    /\ errors \in 0..MaxItems

(***************************************************************************)
(* Properties.                                                             *)
(***************************************************************************)
StatsJson(folder) == File(folder, "stats", ".json")

Failures == {k \in 1..Len(rets) : ~rets[k]}

\* C1: in a folder run that reaches its summary and in which exactly one
\* item raised inside the try block of process_single_image while the others
\* succeeded, every item was passed to process_single_image, in order, and
\* the summary has processed = N - 1 and errors = 1.
C1_Isolation ==
    (pc = "done" /\ Cardinality(Failures) = 1)
        => /\ attempted = [k \in 1..N |-> k]
           /\ Len(rets) = N
           /\ summary.processed = N - 1
           /\ summary.errors = 1

\* A run of at least two items whose first item failed and whose later
\* items all succeeded has written its summary.
C1_Witness ==
    /\ pc = "done"
    /\ N >= 2
    /\ ~rets[1]
    /\ \A k \in 2..N : rets[k]

\* C2: an exception raised anywhere in the per-item work, the folder
\* allocation by gen_save_folder included, never keeps the following items
\* from being attempted: a run never ends by an exception while items of
\* image_files have not been passed to process_single_image.
C2_Claim == pc = "aborted" => Len(attempted) = N

\* C3: a written summary has total_images = processed + errors and
\* average_time = total_time / max(processed, 1), which is 0 with a nonzero
\* divisor when every item failed; at the head of the loop, with i - 1 items
\* handled, processed + errors = i - 1.
C3_SummaryArithmetic ==
    /\ summary # None =>
          /\ summary.total_images = summary.processed + summary.errors
          /\ summary.average_time.num = summary.total_time
          /\ summary.average_time.den = Max(summary.processed, 1)
          /\ summary.average_time.den > 0
          /\ summary.processed = 0 => summary.average_time.num = 0
    /\ pc = "loop" => processed + errors = i - 1
    /\ pc \in RunningPcs \cup {"done"} => processed + errors = Len(rets)

\* A summary was written for a run in which every item failed.
C3_Witness ==
    /\ summary # None
    /\ summary.processed = 0
    /\ summary.errors >= 1

Rank(fn) == CASE fn = "bpy" -> 1 [] fn = "pymeshlab" -> 2 [] OTHER -> 3

\* The invocations made by the loop of _convert_to_fbx itself.
LoopCalls == SelectSeq(calls, LAMBDA c : c.via = "convert")

\* C4: after a conversion, the backends invoked by the loop of
\* _convert_to_fbx are available ones, in the order bpy, PyMeshLab, Open3D;
\* each was invoked only after every earlier available backend had returned
\* failure; nothing is invoked after a success, and the conversion succeeds
\* exactly when the last invoked backend did.
C4_FallbackOrder ==
    (export_ret # None /\ export_ret.conv # "none") =>
        LET top == LoopCalls IN
        /\ \A k \in 1..Len(top) : InSeq(top[k].fn, fbx_methods)
        /\ \A j, k \in 1..Len(top) : j < k => Rank(top[j].fn) < Rank(top[k].fn)
        /\ \A k \in 1..Len(top) : \A m \in Backends :
              (InSeq(m, fbx_methods) /\ Rank(m) < Rank(top[k].fn))
                 => \E j \in 1..(k - 1) : top[j].fn = m /\ ~top[j].ok
        /\ \A k \in 1..(Len(top) - 1) : ~top[k].ok
        /\ (export_ret.conv = "ok") <=> (Len(top) > 0 /\ top[Len(top)].ok)

\* bpy failed, PyMeshLab succeeded and Open3D, though available, was not
\* invoked.
C4_Witness ==
    /\ export_ret # None
    /\ export_ret.conv = "ok"
    /\ InSeq("open3d", fbx_methods)
    /\ calls = <<Call("bpy", "convert", FALSE),
                 Call("pymeshlab", "convert", TRUE)>>

\* C5: when file_type is fbx and the conversion failed (every available
\* backend failed, or none is available), export_mesh raises nothing and
\* returns <base>.obj, an existing file holding the mesh it was given, the
\* <base>_temp.obj being renamed away; the item goes on towards 'processed'.
C5_Claim ==
    (export_ret # None /\ file_type = "fbx" /\ export_ret.conv = "failed") =>
        LET obj == File(save_folder, BaseFilename(export_ret.textured), ".obj")
            tmp == File(save_folder, BaseFilename(export_ret.textured),
                        "_temp.obj")
        IN  /\ ~export_ret.raised
            /\ pc # "except"
            /\ export_ret.path = obj
            /\ Exists(fs, obj)
            /\ Content(fs, obj) = export_ret.mesh
            /\ ~Exists(fs, tmp)

\* C6: any two calls of gen_save_folder within a run return distinct
\* folders.
C6_Claim ==
    \A a, b \in 1..Len(folders) : a # b => folders[a] # folders[b]

\* C7: for every item that has finished, stats.json is in its folder if and
\* only if process_single_image returned success for it.
C7_Claim ==
    \A k \in 1..Len(rets) : Exists(fs, StatsJson(folders[k])) <=> rets[k]

RecordsOf(rs, k) == {j \in 1..Len(rs) : rs[j].idx = k}

C9_ResultOrder ==
    /\ \A x, y \in 1..Len(results) :
          x < y <=> results[x].idx < results[y].idx
    /\ \A x \in 1..Len(results) :
          results[x].image = image_files[results[x].idx]
    /\ summary # None => summary.results = results

\* A summary with records of two items.
C9_Witness ==
    /\ summary # None
    /\ Len(summary.results) >= 2

\* An item is in flight: its folder was allocated and process_single_image
\* has not returned for it.
InFlight == Len(folders) > Len(rets)

\* C10: when the interrupt arrives between items, after at least one item,
\* a summary of exactly the attempted items is produced; when it arrives
\* with an item in flight, that item's folder is removed or lacks
\* stats.json.
C10_Claim ==
    pc = "interrupted" =>
        IF InFlight
        THEN \/ folders[Len(folders)] \notin dirs
             \/ ~Exists(fs, StatsJson(folders[Len(folders)]))
        ELSE Len(rets) >= 1 =>
                /\ summary # None
                /\ summary.total_images = Len(rets)

\* C11: every folder run in which no interrupt arrives and each call returns
\* or raises eventually has batch_summary.json written, holding the total,
\* processed and errors counts of the run.
C11_Claim ==
    <>(/\ summary # None
       /\ summary.total_images = N
       /\ summary.processed + summary.errors = N)

Intermediates == {"_temp.obj", "_pymeshlab.obj", "_temp_o3d.obj"}

\* C12: when an export_mesh call with file_type fbx has returned, the item
\* folder holds no <base>_temp.obj, <base>_pymeshlab.obj or
\* <base>_temp_o3d.obj.
C12_Claim ==
    (export_ret # None /\ file_type = "fbx" /\ ~export_ret.raised) =>
        \A f \in fs :
            f.path.dir = save_folder => f.path.ext \notin Intermediates

\* C13: in a conversion no backend is called while a file left by a backend
\* that failed is at the path it writes to, and after a conversion in which
\* every backend failed there is no file at the final .fbx path.
C13_Claim ==
    (export_ret # None /\ export_ret.conv # "none") =>
        /\ ~export_ret.stale
        /\ export_ret.conv = "failed" =>
              ~Exists(fs, File(save_folder, BaseFilename(export_ret.textured),
                               ".fbx"))

\* C14: no availability probe blocks for ever, in main or in
\* _check_fbx_dependencies, whichever imports hang; once the probes are
\* done, a backend whose import hangs is not in fbx_methods.
C14_Claim ==
    /\ pc # "hung"
    /\ fbx_methods # Unset => \A m \in hanging : ~InSeq(m, fbx_methods)

\* C15: in low VRAM mode, whenever the loop is between two items the cache
\* has been cleared once for every item handled so far, failed ones
\* included.
C15_Claim ==
    (low_vram_mode /\ pc \in {"loop", "done"}) => cache_cleared = Len(rets)

\* C16: when the input does not exist, is neither a supported image nor a
\* directory, or a cuda device is asked for without CUDA, main is at its
\* checks or has exited with status 1, and the processor has not been
\* constructed, no item has been attempted and no folder or file made.
C16_StartupChecks ==
    (\/ input_kind \in {"missing", "other"}
     \/ device = "cuda:0" /\ ~cuda_available) =>
        /\ pc \in {"start", "exit1"}
        /\ fbx_methods = Unset
        /\ texgen_worker = FALSE
        /\ attempted = <<>>
        /\ folders = <<>>
        /\ dirs = {}
        /\ fs = {}
        /\ summary = None

\* main has exited with status 1 on a directory given with a cuda device
\* while CUDA is unavailable.
C16_Witness ==
    /\ pc = "exit1"
    /\ input_kind = "dir"
    /\ device = "cuda:0"
    /\ ~cuda_available

\* C17: whatever items were handled before, i23d_worker is called with the
\* image of the item in flight and a generator seeded with the configured
\* seed from which nothing has been drawn; the stats dictionary returned by
\* _gen_shape has no total time of an earlier item; between two items no
\* local of process_single_image is left.
C17_FreshItemState ==
    /\ i23d_args # None =>
          /\ i23d_args.image = image_files[i]
          /\ i23d_args.generator = [seed |-> Seed, drawn |-> 0]
    /\ pc = "export_raw" => stats = [counted |-> "raw", total |-> NoTime]
    /\ pc = "loop" =>
          /\ stats = None
          /\ i23d_args = None
          /\ mesh = NoMesh
          /\ stages = <<>>

\* The second item is at its i23d_worker call after a first item that went
\* through shape generation and succeeded.
C17_Witness ==
    /\ Len(rets) = 1
    /\ rets[1]
    /\ i23d_args # None

\* C18: a _generate_preview call, whether or not it raised inside, leaves
\* process_single_image on its success path (at the low-VRAM step, not in
\* the except clause), with stats and every file written before it
\* unchanged; with low VRAM mode off, the step after it is the successful
\* return unless an interrupt arrives.
C18_PreviewContained ==
    [][/\ Preview =>
            /\ pc' = "empty_cache"
            /\ stats' = stats
            /\ fs \subseteq fs'
       /\ (pc = "empty_cache" /\ ~low_vram_mode /\ pc' # "interrupted") =>
            pc' = "return"]_vars

\* An item has returned success although its preview raised before any
\* view was saved; stats.json is in its folder.
C18_Witness ==
    /\ pc = "return"
    /\ Exists(fs, StatsJson(save_folder))
    /\ \A k \in 1..Len(Views) : ~Exists(fs, File(save_folder, Views[k], ".png"))

\* C19: when process_single_image is about to return success, the 'total'
\* of stats is the time from start_time_total to the end of the preview.
C19_Claim == pc = "return" => stats.total = elapsed

\* The order of the stages of an item; texture only with a texture worker.
StageOrder(tex) ==
    <<"shape_generation", "export_raw", "floater_remove",
      "degenerate_face_remove", "face_reduce", "export_clean">>
    \o (IF tex THEN <<"texture">> ELSE <<>>) \o <<"stats", "preview">>

IsPrefix(a, b) == Len(a) <= Len(b) /\ a = SubSeq(b, 1, Len(a))

\* Number of stages that have returned when control is at p.
Returned(p, tex) ==
    CASE p \in {"loop", "load", "gen_shape"} -> 0
      [] p = "export_raw" -> 1
      [] p = "postprocess" -> 2
      [] p = "export_clean" -> 5
      [] p = "texture" -> 6
      [] p = "stats" -> Len(StageOrder(tex)) - 2
      [] p = "preview" -> Len(StageOrder(tex)) - 1
      [] OTHER -> Len(StageOrder(tex))

\* C20: the stages an item has started are always an initial part of the
\* fixed order; when control is at a stage, exactly the stages before it
\* have run; an item that raised has started nothing after the stage that
\* raised, and an item that returns success has run them all.
C20_StageOrder ==
    /\ IsPrefix(stages, StageOrder(texgen_worker))
    /\ pc \in (RunningPcs \ {"except"}) =>
          stages = SubSeq(StageOrder(texgen_worker), 1,
                          Returned(pc, texgen_worker))
    /\ pc = "return" => stages = StageOrder(texgen_worker)

\* An item with a texture worker failed in degenerate-face removal: floater
\* removal is the stage before it and nothing after it has started.
C20_Witness ==
    /\ pc = "except"
    /\ texgen_worker
    /\ stages = <<"shape_generation", "export_raw", "floater_remove",
                  "degenerate_face_remove">>

\* C21: the texture stage, whatever the file type and the outcome of the
\* conversion, writes, replaces and removes only files named textured_mesh:
\* every file it adds, changes or deletes has that base name, so the
\* white_mesh files are the same before and after it.
C21_TextureFrame ==
    [][Texture =>
          \A f \in (fs' \ fs) \cup (fs \ fs') : f.path.base = "textured_mesh"]_vars

\* The textured export degraded to textured_mesh.obj next to the
\* white_mesh.obj of the untextured export.
C21_Witness ==
    /\ pc = "stats"
    /\ export_ret # None
    /\ export_ret.textured
    /\ export_ret.conv = "failed"
    /\ Exists(fs, File(save_folder, "white_mesh", ".obj"))
    /\ Exists(fs, File(save_folder, "textured_mesh", ".obj"))

\* C22: a _gen_shape call with neither image nor caption, or with a caption
\* only and no text-to-image worker, ends in a ValueError having called no
\* worker and written no file; a call given an image never calls the
\* text-to-image worker.
C22_ConfigErrors ==
    pc = "gen_shape_returned" =>
        /\ (gs_in.image = "none" /\ (~gs_in.caption \/ ~gs_in.t2i_worker)) =>
              /\ gs_out.raised = "ValueError"
              /\ gs_out.trace = <<>>
              /\ gs_out.files = {}
        /\ gs_in.image # "none" => ~InSeq("t2i", gs_out.trace)

\* A call with a caption, a folder and no text-to-image worker has raised
\* ValueError.
C22_Witness ==
    /\ pc = "gen_shape_returned"
    /\ gs_in.image = "none"
    /\ gs_in.caption
    /\ gs_in.save_folder
    /\ ~gs_in.t2i_worker
    /\ gs_out.raised = "ValueError"

\* Modes of a PIL image that carry an alpha channel.
HasAlpha(mode) == mode = "RGBA"

C24_Open3dChain ==
    (export_ret # None /\ export_ret.conv # "none") =>
        /\ \A k \in 1..Len(calls) :
              calls[k].via = "open3d" =>
                 /\ calls[k].fn = "bpy"
                 /\ InSeq("bpy", fbx_methods)
                 /\ k > 1
                 /\ calls[k - 1].fn = "open3d"
        /\ \A k \in 1..Len(calls) :
              calls[k].fn = "open3d" =>
                 /\ calls[k].via = "convert"
                 /\ calls[k].ok =>
                       /\ InSeq("bpy", fbx_methods)
                       /\ k < Len(calls)
                       /\ calls[k + 1] = Call("bpy", "open3d", TRUE)
                 /\ ~InSeq("bpy", fbx_methods) => ~calls[k].ok
        /\ (export_ret.conv = "ok" /\ ~InSeq("bpy", fbx_methods)) =>
              InSeq(Call("pymeshlab", "convert", TRUE), calls)

\* bpy failed in the loop and then succeeded on the OBJ cleaned by Open3D.
C24_Witness ==
    /\ export_ret # None
    /\ export_ret.conv = "ok"
    /\ calls = <<Call("bpy", "convert", FALSE), Call("open3d", "convert", TRUE),
                 Call("bpy", "open3d", TRUE)>>

\* C25: when an item whose exports were asked as fbx returns success, exactly
\* one of white_mesh.fbx and white_mesh.obj is in its folder and it holds
\* the cleaned mesh.
C25_Claim ==
    (pc = "return" /\ call_file_type = "fbx") =>
        LET fbx == File(save_folder, "white_mesh", ".fbx")
            obj == File(save_folder, "white_mesh", ".obj")
        IN  /\ ~(Exists(fs, fbx) <=> Exists(fs, obj))
            /\ Exists(fs, fbx) => Content(fs, fbx) = "clean"
            /\ Exists(fs, obj) => Content(fs, obj) = "clean"

\* C26: when process_single_image returns success, the face and vertex
\* counts in stats are those of the mesh it holds, the cleaned mesh that was
\* exported as white_mesh.
C26_Claim == pc = "return" => stats.counted = mesh

CallsOf(fn) == {k \in 1..Len(calls) : calls[k].fn = fn}

\* C27 as stated: in one conversion no backend implementation runs more
\* than once.
C27_Claim ==
    (export_ret # None /\ export_ret.conv # "none") =>
        \A fn \in Backends : Cardinality(CallsOf(fn)) <= 1

\* C27 amended: in one conversion the loop of _convert_to_fbx invokes each
\* backend at most once, PyMeshLab and Open3D run at most once, and bpy runs
\* at most twice, the second time only from inside the Open3D backend.
C27_LoopOnce ==
    (export_ret # None /\ export_ret.conv # "none") =>
        /\ \A j, k \in 1..Len(LoopCalls) :
              LoopCalls[j].fn = LoopCalls[k].fn => j = k
        /\ Cardinality(CallsOf("pymeshlab")) <= 1
        /\ Cardinality(CallsOf("open3d")) <= 1
        /\ Cardinality(CallsOf("bpy")) <= 2
        /\ \A j, k \in CallsOf("bpy") : j < k => calls[k].via = "open3d"

\* All three backends failed and bpy ran twice, both times failing.
C27_Witness ==
    /\ export_ret # None
    /\ export_ret.conv = "failed"
    /\ calls = <<Call("bpy", "convert", FALSE),
                 Call("pymeshlab", "convert", FALSE),
                 Call("open3d", "convert", FALSE),
                 Call("bpy", "open3d", FALSE)>>

Count(f, s) == Cardinality({k \in 1..Len(s) : s[k] = f})

\* C29: the item list process_folder builds holds exactly the files of the
\* folder that is_image_file accepts, each of them once.
C29_Claim ==
    pc = "glob_done" =>
        \A f \in FolderNames :
            Count(f, globbed) = IF f \in listing /\ is_image_file(f) THEN 1 ELSE 0

\* C30: when the dependency check has run on a supported Python, it returns
\* success exactly when every basic package is installed, and a package that
\* is not installed is in its list of missing packages.
C30_Claim ==
    (pc = "deps_returned" /\ deps.python_ok) =>
        /\ deps.returned <=> (Range(BasicPackages) \subseteq packages)
        /\ deps.missing = <<>> => (Range(BasicPackages) \subseteq packages)

====
